---- MODULE Spec2Model ----
(***************************************************************************)
(* The lean-manufacturing engine of vsm-streamlit (src/engine.py):        *)
(* compute_lead_time and score_wastes, as a state machine whose initial   *)
(* states draw the arguments of one engine call from bounded sets and     *)
(* whose actions make the call.                                           *)
(*                                                                         *)
(* Numbers.  Python floats are modelled by exact rationals, kept as mixed *)
(* numbers [i, n, d] standing for i + n/d with 0 <= n < d, gcd(n,d) = 1.  *)
(* A raised ZeroDivisionError is the value Err (d = 0), which every       *)
(* operation propagates.  round(x, 2) is Round2(x): the nearest multiple  *)
(* of 1/100, ties to even, given as an integer number of hundredths; so   *)
(* every reported (rounded) field of a result is an integer count of      *)
(* hundredths (1.08 is 108).                                              *)
(* Optional values: None is <<>>, a present value v is <<v>>.              *)
(***************************************************************************)
EXTENDS Integers, Sequences, FiniteSets

VARIABLES
    pc,                  \* the engine call the caller makes next, or "done"
    steps,               \* compute_lead_time's argument: List[ProcessStep]
    available_time_sec,  \* compute_lead_time's argument
    result,              \* None, or <<the dict compute_lead_time returned>>
    step,                \* score_wastes's argument: ProcessStep
    rules,               \* score_wastes's argument: the rule store
    ws                   \* None, or <<the WasteScores score_wastes returned>>

vars == <<pc, steps, available_time_sec, result, step, rules, ws>>

\* ------------------------------------------------------------ bounds
MaxSteps == 2
MaxQuestions == 2

\* ---------------------------------------------------------- optionals
None == <<>>
Some(v) == <<v>>
\* Python's `x or 0` on an Optional number.
OrZero(o) == IF o = None THEN 0 ELSE o[1]

\* ----------------------------------------------------------- rationals
RECURSIVE GCD(_, _)
GCD(a, b) == IF b = 0 THEN a ELSE GCD(b, a % b)

Err == [i |-> 0, n |-> 0, d |-> 0]
IsErr(x) == x.d = 0

\* num/den for den > 0, normalised.
Mk(num, den) ==
    LET r == num % den
        g == GCD(den, r)
    IN  [i |-> num \div den, n |-> r \div g, d |-> den \div g]

RInt(k) == [i |-> k, n |-> 0, d |-> 1]

RAdd(x, y) ==
    IF IsErr(x) \/ IsErr(y) THEN Err
    ELSE IF x.n = 0 THEN [y EXCEPT !.i = x.i + y.i]
    ELSE IF y.n = 0 THEN [x EXCEPT !.i = x.i + y.i]
    ELSE LET g == GCD(x.d, y.d)
             l == (x.d \div g) * y.d
             m == Mk(x.n * (l \div x.d) + y.n * (l \div y.d), l)
         IN  [i |-> x.i + y.i + m.i, n |-> m.n, d |-> m.d]

RNeg(x) ==
    IF IsErr(x) THEN Err
    ELSE IF x.n = 0 THEN RInt(-x.i)
    ELSE [i |-> -x.i - 1, n |-> x.d - x.n, d |-> x.d]

RSub(x, y) == RAdd(x, RNeg(y))

RMul(x, y) ==
    IF IsErr(x) \/ IsErr(y) THEN Err
    ELSE IF x.n = 0 THEN RAdd(RInt(x.i * y.i), Mk(x.i * y.n, y.d))
    ELSE IF y.n = 0 THEN RAdd(RInt(x.i * y.i), Mk(y.i * x.n, x.d))
    ELSE RAdd(RAdd(RInt(x.i * y.i), Mk(x.i * y.n, y.d)),
              RAdd(Mk(y.i * x.n, x.d), Mk(x.n * y.n, x.d * y.d)))

RIsZero(x) == ~IsErr(x) /\ x.i = 0 /\ x.n = 0
RLt(x, y) == x.i < y.i \/ (x.i = y.i /\ x.n * y.d < y.n * x.d)
RLe(x, y) == ~RLt(y, x)
RMax(x, y) == IF RLt(x, y) THEN y ELSE x

\* 1/x; dividing by zero raises.
RInv(x) ==
    IF IsErr(x) \/ RIsZero(x) THEN Err
    ELSE IF x.i >= 0 THEN Mk(x.d, x.i * x.d + x.n)
    ELSE RNeg(Mk(RNeg(x).d, RNeg(x).i * RNeg(x).d + RNeg(x).n))

RDiv(x, y) == RMul(x, RInv(y))

\* round(x, 2), in hundredths: nearest, ties to even.
Round2(x) ==
    LET t == x.n * 100
        q == t \div x.d
        r == t % x.d
        up == IF 2 * r > x.d THEN 1
              ELSE IF 2 * r < x.d THEN 0
              ELSE q % 2
    IN  x.i * 100 + q + up

\* ------------------------------------------------------- ProcessStep
EmptyDict == <<>>

\* The dataclass with its defaults: every metric None, answers {}.
DefaultStep ==
    [id |-> "P1", ct_sec |-> None, wip_units_in |-> None, defect_pct |-> None,
     rework_pct |-> None, downtime_pct |-> None, push_pull |-> None,
     co_freq_per_shift |-> None, co_time_min |-> None,
     waiting_starved_pct |-> None, answers |-> EmptyDict]

\* ----------------------------------------------------------- VSMMath
\* Mutant: the throughput is the bottleneck itself (the reciprocal forgotten).
infer_throughput_NoReciprocal(ct_bottleneck_sec) ==
    IF IsErr(ct_bottleneck_sec) THEN Err
    ELSE IF RIsZero(ct_bottleneck_sec) \/ RLe(ct_bottleneck_sec, RInt(0))
    THEN RInt(0)
    ELSE ct_bottleneck_sec

infer_throughput(ct_bottleneck_sec) ==
    IF IsErr(ct_bottleneck_sec) THEN Err
    ELSE IF RIsZero(ct_bottleneck_sec) \/ RLe(ct_bottleneck_sec, RInt(0))
    THEN RInt(0)
    ELSE RDiv(RInt(1), ct_bottleneck_sec)

waiting_time_from_wip(wip_units, ct_bottleneck_sec) ==
    LET th == infer_throughput(ct_bottleneck_sec)
    IN  IF IsErr(th) THEN Err
        ELSE IF RLe(th, RInt(0)) \/ wip_units = 0 THEN RInt(0)
        ELSE RDiv(RInt(wip_units), th)

\* The floor of the downtime divisor: 1e-6.
DowntimeDivisorFloor == Mk(1, 1000000)

\* Mutant: the downtime divisor is not floored.
ct_effective_NoFloor(ct_sec, downtime_pct, co_time_min, co_freq_per_shift, avail) ==
    IF ct_sec = 0 THEN RInt(0)
    ELSE
      LET dt_factor ==
              IF downtime_pct # None
              THEN RDiv(RInt(1), RSub(RInt(1), Mk(downtime_pct[1], 100)))
              ELSE RInt(1)
          co_loss ==
              IF co_time_min # 0 /\ co_freq_per_shift # 0 /\ avail # 0
              THEN RDiv(RMul(RInt(co_time_min * 60), RInt(co_freq_per_shift)),
                        RInt(avail))
              ELSE RInt(0)
      IN  RAdd(RMul(RInt(ct_sec), dt_factor), co_loss)

\* downtime_pct is an Optional here (the `is not None` test); the other
\* parameters are numbers.
ct_effective(ct_sec, downtime_pct, co_time_min, co_freq_per_shift, avail) ==
    IF ct_sec = 0 THEN RInt(0)
    ELSE
      LET dt_factor ==
              IF downtime_pct # None
              THEN RDiv(RInt(1),
                        RMax(DowntimeDivisorFloor,
                             RSub(RInt(1), Mk(downtime_pct[1], 100))))
              ELSE RInt(1)
          co_loss ==
              IF co_time_min # 0 /\ co_freq_per_shift # 0 /\ avail # 0
              THEN RDiv(RMul(RInt(co_time_min * 60), RInt(co_freq_per_shift)),
                        RInt(avail))
              ELSE RInt(0)
      IN  RAdd(RMul(RInt(ct_sec), dt_factor), co_loss)

\* ------------------------------------------------- compute_lead_time
\* Mutant: no fallback to the raw ct_sec.
CtEffEntry_NoFallback(s, avail) ==
    ct_effective(OrZero(s.ct_sec), Some(OrZero(s.downtime_pct)),
                 OrZero(s.co_time_min), OrZero(s.co_freq_per_shift), avail)

\* One entry of ct_eff_list: the effective cycle time, or the raw ct_sec
\* when that is not positive.
CtEffEntry(s, avail) ==
    LET ct_eff == ct_effective(OrZero(s.ct_sec), Some(OrZero(s.downtime_pct)),
                               OrZero(s.co_time_min),
                               OrZero(s.co_freq_per_shift), avail)
    IN  IF IsErr(ct_eff) THEN Err
        ELSE IF RLt(RInt(0), ct_eff) THEN ct_eff
        ELSE RInt(OrZero(s.ct_sec))

CtEffList(ss, avail) == [k \in 1..Len(ss) |-> CtEffEntry(ss[k], avail)]

\* max(ct_eff_list) over the first k entries, k >= 1.
RECURSIVE MaxOf(_, _)
MaxOf(list, k) ==
    IF k = 1 THEN list[1] ELSE RMax(MaxOf(list, k - 1), list[k])

AnyErr(list) == \E k \in 1..Len(list) : IsErr(list[k])

\* max(ct_eff_list) if ct_eff_list else 0.0
CtBottleneck(ct_eff_list) ==
    IF ct_eff_list = <<>> THEN RInt(0)
    ELSE IF AnyErr(ct_eff_list) THEN Err
    ELSE MaxOf(ct_eff_list, Len(ct_eff_list))

\* The body of the second loop for one step: the unrounded times.
StepTimes(s, ct_eff, ct_bottleneck) ==
    LET waiting == waiting_time_from_wip(OrZero(s.wip_units_in), ct_bottleneck)
        rework_time == RMul(Mk(OrZero(s.rework_pct), 100), RInt(OrZero(s.ct_sec)))
    IN  [ct_eff |-> ct_eff, waiting |-> waiting, rework_time |-> rework_time,
         total_step_time |-> RAdd(RAdd(ct_eff, waiting), rework_time)]

ByStepEntry(t) ==
    [ct_eff_sec |-> Round2(t.ct_eff), waiting_sec |-> Round2(t.waiting),
     rework_sec |-> Round2(t.rework_time), total_sec |-> Round2(t.total_step_time)]

\* by_step[s.id] = {...} for the first k steps: a later step with the same id
\* overwrites the entry.
RECURSIVE ByStep(_, _, _)
ByStep(ss, times, k) ==
    IF k = 0 THEN EmptyDict
    ELSE LET prev == ByStep(ss, times, k - 1)
         IN  [x \in DOMAIN prev \cup {ss[k].id} |->
                 IF x = ss[k].id THEN ByStepEntry(times[k]) ELSE prev[x]]

\* Mutant: lead_time = total_step_time (assigned, not accumulated).
LeadTime_Overwrite(times, k) ==
    IF k = 0 THEN RInt(0) ELSE times[k].total_step_time

\* lead_time += total_step_time over the first k steps.
RECURSIVE LeadTime(_, _)
LeadTime(times, k) ==
    IF k = 0 THEN RInt(0)
    ELSE RAdd(LeadTime(times, k - 1), times[k].total_step_time)

RaisedResult ==
    [raised |-> TRUE, lead_time_sec |-> 0, by_step |-> EmptyDict,
     ct_bottleneck_sec |-> 0]

compute_lead_time(ss, avail) ==
    IF ss = <<>>
    THEN [raised |-> FALSE, lead_time_sec |-> 0, by_step |-> EmptyDict,
          ct_bottleneck_sec |-> 0]
    ELSE
      LET ct_eff_list == CtEffList(ss, avail)
          ct_bottleneck == CtBottleneck(ct_eff_list)
          times == [k \in 1..Len(ss) |->
                       StepTimes(ss[k], ct_eff_list[k], ct_bottleneck)]
      IN  IF IsErr(ct_bottleneck)
             \/ \E k \in 1..Len(ss) : IsErr(times[k].total_step_time)
          THEN RaisedResult
          ELSE [raised |-> FALSE,
                lead_time_sec |-> Round2(LeadTime(times, Len(ss))),
                by_step |-> ByStep(ss, times, Len(ss)),
                ct_bottleneck_sec |-> Round2(ct_bottleneck)]

\* ------------------------------------------------------ score_wastes
\* q.get("weight", 1)
Weight(q) == IF q.weight = None THEN 1 ELSE q.weight[1]

\* sum([q.get("weight",1) for q in qlist]) over the first k questions.
RECURSIVE SumWeights(_, _)
SumWeights(qlist, k) ==
    IF k = 0 THEN 0 ELSE SumWeights(qlist, k - 1) + Weight(qlist[k])

\* step.answers.get(qid, None)
AnswerOf(s, qid) == IF qid \in DOMAIN s.answers THEN Some(s.answers[qid]) ELSE None

\* Mutant: defects are inferred only strictly above the high-defect
\* threshold 5.
Inferred_AboveHighThreshold(waste_name, s) ==
    IF waste_name = "defects" /\ OrZero(s.defect_pct) > 5 THEN TRUE
    ELSE IF waste_name = "waiting" /\ OrZero(s.waiting_starved_pct) >= 10 THEN TRUE
    ELSE IF waste_name = "inventory" /\ OrZero(s.wip_units_in) > 0 THEN TRUE
    ELSE FALSE

\* Mutant: the defects comparison is flipped (<= 3).
Inferred_FlippedComparison(waste_name, s) ==
    IF waste_name = "defects" /\ OrZero(s.defect_pct) <= 3 THEN TRUE
    ELSE IF waste_name = "waiting" /\ OrZero(s.waiting_starved_pct) >= 10 THEN TRUE
    ELSE IF waste_name = "inventory" /\ OrZero(s.wip_units_in) > 0 THEN TRUE
    ELSE FALSE

\* The auto-inference chain for a question without an explicit answer:
\* TRUE when a branch sets val = True (and counts a measured flag).
Inferred(waste_name, s) ==
    IF waste_name = "defects" /\ OrZero(s.defect_pct) >= 3 THEN TRUE
    ELSE IF waste_name = "waiting" /\ OrZero(s.waiting_starved_pct) >= 10 THEN TRUE
    ELSE IF waste_name = "inventory" /\ OrZero(s.wip_units_in) > 0 THEN TRUE
    ELSE FALSE

\* Mutant: `if not val` for `if val is None`: an explicit False is inferred
\* over like an unset answer.
RECURSIVE ScanQuestions_InferOverFalse(_, _, _, _)
ScanQuestions_InferOverFalse(waste_name, qlist, s, k) ==
    IF k = 0 THEN [true_weight |-> 0, measured_flags |-> 0, answered_flags |-> 0]
    ELSE
      LET acc == ScanQuestions_InferOverFalse(waste_name, qlist, s, k - 1)
          q == qlist[k]
          explicit == AnswerOf(s, q.id)
          falsy == explicit = None \/ explicit = Some(FALSE)
          inferred == falsy /\ Inferred(waste_name, s)
          val == IF falsy THEN inferred ELSE explicit[1]
      IN  [true_weight |-> acc.true_weight + (IF val THEN Weight(q) ELSE 0),
           measured_flags |-> acc.measured_flags + (IF inferred THEN 1 ELSE 0),
           answered_flags |-> acc.answered_flags + (IF falsy THEN 0 ELSE 1)]

\* The loop over qlist, after its first k questions.
RECURSIVE ScanQuestions(_, _, _, _)
ScanQuestions(waste_name, qlist, s, k) ==
    IF k = 0 THEN [true_weight |-> 0, measured_flags |-> 0, answered_flags |-> 0]
    ELSE
      LET acc == ScanQuestions(waste_name, qlist, s, k - 1)
          q == qlist[k]
          explicit == AnswerOf(s, q.id)
          inferred == explicit = None /\ Inferred(waste_name, s)
          val == IF explicit = None THEN inferred ELSE explicit[1]
      IN  [true_weight |-> acc.true_weight + (IF val THEN Weight(q) ELSE 0),
           measured_flags |-> acc.measured_flags + (IF inferred THEN 1 ELSE 0),
           answered_flags |-> acc.answered_flags + (IF explicit = None THEN 0 ELSE 1)]

\* sum(...) or 1
TotalWeight(qlist) ==
    LET sum == SumWeights(qlist, Len(qlist)) IN IF sum = 0 THEN 1 ELSE sum

\* min(5.0, round(true_weight * (5.0/total_weight), 2)), in hundredths; Err
\* when the division raises.
ScoreVal(true_weight, total_weight) ==
    LET v == RMul(RInt(true_weight), RDiv(RInt(5), RInt(total_weight)))
    IN  IF IsErr(v) THEN Err
        ELSE RInt(IF Round2(v) < 500 THEN Round2(v) ELSE 500)

\* Mutant: no tier when nothing was measured.
Confidence_NoDefault(measured_flags, answered_flags) ==
    IF measured_flags > 0 /\ answered_flags = 0 THEN "High"
    ELSE IF measured_flags > 0 THEN "Medium"
    ELSE "None"

Confidence(measured_flags, answered_flags) ==
    IF measured_flags > 0 /\ answered_flags = 0 THEN "High"
    ELSE IF measured_flags > 0 THEN "Medium"
    ELSE "Low"

\* One pass of the loop over the waste categories.
ScoreCategory(waste_name, cfg, s) ==
    LET qlist == cfg.questions
        acc == ScanQuestions(waste_name, qlist, s, Len(qlist))
    IN  [score |-> ScoreVal(acc.true_weight, TotalWeight(qlist)),
         conf |-> Confidence(acc.measured_flags, acc.answered_flags)]

RaisedScores ==
    [raised |-> TRUE, step_id |-> "", scores |-> EmptyDict, confidence |-> EmptyDict]

score_wastes(s, rs) ==
    LET wastes == rs.wastes
        per == [c \in DOMAIN wastes |-> ScoreCategory(c, wastes[c], s)]
    IN  IF \E c \in DOMAIN wastes : IsErr(per[c].score) THEN RaisedScores
        ELSE [raised |-> FALSE, step_id |-> s.id,
              scores |-> [c \in DOMAIN wastes |-> per[c].score.i],
              confidence |-> [c \in DOMAIN wastes |-> per[c].conf]]

\* --------------------------------------- inputs of compute_lead_time
\* Step ids are opaque keys: a sequence is labelled canonically, each step
\* taking an id already used or the next fresh one, so that sequences with
\* repeated ids and with all ids distinct both occur.
IdNames == <<"P1", "P2", "P3", "P4">>
IdPatterns(k) ==
    {f \in [1..k -> 1..k] :
        \A j \in 1..k :
            \/ f[j] = 1
            \/ \E h \in 1..(j - 1) : f[h] >= f[j] - 1}

CtValues == {None, Some(1), Some(-1)}
DowntimeValues == {None, Some(7), Some(100)}
\* <<wip_units_in, co_time_min, co_freq_per_shift, rework_pct>>
WipLossValues ==
    {<<None, None, None, None>>, <<Some(0), None, None, None>>,
     <<Some(2), None, None, None>>, <<Some(2), Some(10), Some(1), Some(13)>>}
AvailValues == {0, 28800}

LeadTimeMetrics ==
    {[DefaultStep EXCEPT !.ct_sec = c, !.downtime_pct = dt,
                         !.wip_units_in = wl[1], !.co_time_min = wl[2],
                         !.co_freq_per_shift = wl[3], !.rework_pct = wl[4]] :
        c \in CtValues, dt \in DowntimeValues, wl \in WipLossValues}

\* The sequence with the metrics m[j] and the id IdNames[f[j]] at position j.
StepSeq(m, f) == [j \in DOMAIN m |-> [m[j] EXCEPT !.id = IdNames[f[j]]]]

\* -------------------------------------------- inputs of score_wastes
WasteNames == {"defects", "waiting", "inventory", "overproduction"}
CategorySets == {{}, {"defects"}, {"overproduction"}, WasteNames}
QIdNames == <<"q1", "q2", "q3", "q4">>
QIds == {QIdNames[k] : k \in 1..MaxQuestions}
WeightValues == {None, Some(0), Some(2), Some(-1)}
WeightSeqs == UNION {[1..k -> WeightValues] : k \in 0..MaxQuestions}

\* The rule store whose categories cs each list len(w) questions q1, q2, ...
\* with the weights w (None: the question has no "weight" key).
RuleStore(cs, w) ==
    [wastes |->
        [c \in cs |->
            [questions |-> [k \in 1..Len(w) |-> [id |-> QIdNames[k], weight |-> w[k]]]]]]

RuleStores == {RuleStore(cs, w) : cs \in CategorySets, w \in WeightSeqs}

AnswerDicts == UNION {[D -> BOOLEAN] : D \in SUBSET QIds}
DefectValues == {None, Some(2), Some(3), Some(5)}
StarvedValues == {None, Some(10)}
ScoreWipValues == {None, Some(2)}
PushPullValues == {Some("Push"), Some("Pull")}

ScoreSteps ==
    {[DefaultStep EXCEPT !.defect_pct = d, !.waiting_starved_pct = wt,
                         !.wip_units_in = w, !.push_pull = pp, !.answers = a] :
        d \in DefectValues, wt \in StarvedValues, w \in ScoreWipValues,
        pp \in PushPullValues, a \in AnswerDicts}

\* ------------------------------------------------------------ actions
InitLeadTime ==
    /\ pc = "compute_lead_time"
    /\ \E k \in 0..MaxSteps :
          \E m \in [1..k -> LeadTimeMetrics], f \in IdPatterns(k) :
              steps = StepSeq(m, f)
    /\ available_time_sec \in AvailValues
    /\ result = None
    /\ step = DefaultStep
    /\ rules = RuleStore({}, <<>>)
    /\ ws = None

InitScoreWastes ==
    /\ pc = "score_wastes"
    /\ steps = <<>>
    /\ available_time_sec = 0
    /\ result = None
    /\ step \in ScoreSteps
    /\ rules \in RuleStores
    /\ ws = None

Init == InitLeadTime \/ InitScoreWastes

ComputeLeadTime ==
    /\ pc = "compute_lead_time"
    /\ result' = Some(compute_lead_time(steps, available_time_sec))
    /\ pc' = "done"
    /\ UNCHANGED <<steps, available_time_sec, step, rules, ws>>

ScoreWastes ==
    /\ pc = "score_wastes"
    /\ ws' = Some(score_wastes(step, rules))
    /\ pc' = "done"
    /\ UNCHANGED <<steps, available_time_sec, result, step, rules>>

Next == ComputeLeadTime \/ ScoreWastes

SpecLeadTime == InitLeadTime /\ [][ComputeLeadTime]_vars
SpecScoreWastes == InitScoreWastes /\ [][ScoreWastes]_vars
Spec == Init /\ [][Next]_vars

\* ================================================================ claims
LeadTimeDone == pc = "done" /\ result # None
ScoresDone == pc = "done" /\ ws # None

UniqueIds(ss) ==
    \A j, k \in 1..Len(ss) : j # k => ss[j].id # ss[k].id

\* The step whose entry by_step keeps under id: the last one carrying it.
LastIndex(ss, id) ==
    CHOOSE k \in 1..Len(ss) :
        ss[k].id = id /\ \A j \in (k + 1)..Len(ss) : ss[j].id # id

RECURSIVE SumTotalSec(_, _)
SumTotalSec(by_step, ids) ==
    IF ids = {} THEN 0
    ELSE LET x == CHOOSE x \in ids : TRUE
         IN  by_step[x].total_sec + SumTotalSec(by_step, ids \ {x})

Abs(k) == IF k < 0 THEN -k ELSE k

\* lead_time_sec minus the sum of the reported total_sec, in hundredths.
LeadTimeGap ==
    result[1].lead_time_sec
        - SumTotalSec(result[1].by_step, DOMAIN result[1].by_step)

\* C1 as stated: for steps with unique ids, the reported lead_time_sec equals
\* the sum of the reported total_sec of all entries of by_step.
C1_LeadTimeEqualsSumOfReportedTotals ==
    (LeadTimeDone /\ ~result[1].raised /\ UniqueIds(steps)) => LeadTimeGap = 0

\* C1 amended: for steps with unique ids, the reported lead_time_sec (the
\* rounding of the full-precision sum) equals the sum of the reported
\* total_sec for at most one step, and otherwise differs from it by at most
\* 0.005 per step plus 0.005.
C1_LeadTimeWithinRoundingOfTotals ==
    (LeadTimeDone /\ ~result[1].raised /\ UniqueIds(steps)) =>
        /\ 2 * Abs(LeadTimeGap) <= Len(steps) + 1
        /\ Len(steps) <= 1 => LeadTimeGap = 0

C1_Witness ==
    /\ LeadTimeDone /\ ~result[1].raised /\ UniqueIds(steps)
    /\ Len(steps) = 2
    /\ LeadTimeGap # 0
    /\ \E k \in 1..2 : OrZero(steps[k].wip_units_in) > 0

\* The step's computed effective cycle time is not positive.
CtEffNotPositive(s, avail) ==
    ~RLt(RInt(0),
         ct_effective(OrZero(s.ct_sec), Some(OrZero(s.downtime_pct)),
                      OrZero(s.co_time_min), OrZero(s.co_freq_per_shift), avail))

BottleneckIsMaxOfByStep ==
    LET r == result[1]
    IN  IF steps = <<>> THEN r.ct_bottleneck_sec = 0
        ELSE /\ \A id \in DOMAIN r.by_step :
                    r.by_step[id].ct_eff_sec <= r.ct_bottleneck_sec
             /\ \E id \in DOMAIN r.by_step :
                    r.by_step[id].ct_eff_sec = r.ct_bottleneck_sec
             /\ \A id \in DOMAIN r.by_step :
                    LET s == steps[LastIndex(steps, id)]
                    IN  CtEffNotPositive(s, available_time_sec) =>
                            r.by_step[id].ct_eff_sec = 100 * OrZero(s.ct_sec)

\* C2 as stated: for every sequence of steps, ct_bottleneck_sec is the maximum
\* ct_eff_sec over the entries of by_step (0 for the empty sequence), a step
\* whose effective cycle time is not positive contributing its raw ct_sec.
C2_BottleneckIsMaxOfByStep ==
    (LeadTimeDone /\ ~result[1].raised) => BottleneckIsMaxOfByStep

\* C2 amended: the same for every sequence of steps with unique ids.
C2_BottleneckIsMaxOfByStepUniqueIds ==
    (LeadTimeDone /\ ~result[1].raised /\ UniqueIds(steps)) =>
        BottleneckIsMaxOfByStep

C2_Witness ==
    /\ LeadTimeDone /\ ~result[1].raised /\ UniqueIds(steps)
    /\ Len(steps) = 2
    /\ steps[1].ct_sec = Some(-1)
    /\ result[1].by_step[steps[1].id].ct_eff_sec = -100
    /\ result[1].by_step[steps[2].id].ct_eff_sec > 100
    /\ result[1].ct_bottleneck_sec > 100

\* The unrounded bottleneck cycle time of the call.
Bottleneck == CtBottleneck(CtEffList(steps, available_time_sec))

\* C7: in the result, the entry of a step whose wip_units_in is 0 or unset has
\* waiting_sec = 0; the entry of a step with positive WIP has the (rounded)
\* waiting wip_units_in * bottleneck when the bottleneck is positive, else 0.
C7_WaitingFromWip ==
    (LeadTimeDone /\ ~result[1].raised) =>
        \A id \in DOMAIN result[1].by_step :
            LET s == steps[LastIndex(steps, id)]
                w == OrZero(s.wip_units_in)
                e == result[1].by_step[id]
            IN  /\ w = 0 => e.waiting_sec = 0
                /\ w > 0 =>
                     e.waiting_sec =
                        IF RLt(RInt(0), Bottleneck)
                        THEN Round2(RAdd(RInt(w * Bottleneck.i),
                                         Mk(w * Bottleneck.n, Bottleneck.d)))
                        ELSE 0

C7_Witness ==
    /\ LeadTimeDone /\ ~result[1].raised /\ UniqueIds(steps)
    /\ Len(steps) = 2
    /\ steps[1].wip_units_in = Some(0)
    /\ steps[2].wip_units_in = Some(2)
    /\ result[1].by_step[steps[1].id].waiting_sec = 0
    /\ result[1].by_step[steps[2].id].waiting_sec > 0
    /\ Bottleneck.n # 0

\* C9: neither call raises on a degenerate denominator: a downtime of 100 %
\* or more divides by the floor 1e-6 (the effective cycle time is
\* ct_sec * 1000000 plus the changeover loss), a zero available time adds no
\* changeover loss, a zero bottleneck gives waiting 0, and a category whose
\* weights sum to 0 or that has no questions is scored.
C9_NoDegenerateDenominator ==
    /\ LeadTimeDone =>
        /\ ~result[1].raised
        /\ RIsZero(Bottleneck) =>
              \A id \in DOMAIN result[1].by_step :
                  result[1].by_step[id].waiting_sec = 0
        /\ \A id \in DOMAIN result[1].by_step :
              LET s == steps[LastIndex(steps, id)]
                  co == OrZero(s.co_time_min) * 60 * OrZero(s.co_freq_per_shift)
              IN  (OrZero(s.ct_sec) > 0 /\ OrZero(s.downtime_pct) >= 100) =>
                      result[1].by_step[id].ct_eff_sec =
                          Round2(RAdd(RInt(OrZero(s.ct_sec) * 1000000),
                                      IF available_time_sec = 0 THEN RInt(0)
                                      ELSE Mk(co, available_time_sec)))
    /\ ScoresDone =>
        /\ ~ws[1].raised
        /\ DOMAIN ws[1].scores = DOMAIN rules.wastes

C9_Witness ==
    /\ LeadTimeDone /\ ~result[1].raised
    /\ available_time_sec = 0
    /\ Len(steps) = 2
    /\ steps[1].downtime_pct = Some(100) /\ steps[1].ct_sec = Some(1)
    /\ steps[1].co_time_min = Some(10)
    /\ steps[2].ct_sec = None
    /\ result[1].ct_bottleneck_sec = 100000000

\* ------------------------------------------------- score_wastes claims
Questions(c) == rules.wastes[c].questions

NonNegativeWeights ==
    \A c \in DOMAIN rules.wastes :
        \A k \in 1..Len(Questions(c)) : Weight(Questions(c)[k]) >= 0

\* The step carries an explicit answer to some question of category c.
HasExplicitAnswer(c) ==
    \E k \in 1..Len(Questions(c)) : Questions(c)[k].id \in DOMAIN step.answers

\* The metric of category c meets its inference threshold on step s.
MetricMeetsThreshold(c, s) ==
    \/ c = "defects" /\ s.defect_pct # None /\ s.defect_pct[1] >= 3
    \/ c = "waiting" /\ s.waiting_starved_pct # None /\ s.waiting_starved_pct[1] >= 10
    \/ c = "inventory" /\ s.wip_units_in # None /\ s.wip_units_in[1] > 0

\* C3: with non-negative question weights every returned score lies in
\* [0, 5] and every returned confidence is Low, Medium or High.
C3_ScoresAndConfidenceInRange ==
    (ScoresDone /\ ~ws[1].raised /\ NonNegativeWeights) =>
        /\ DOMAIN ws[1].scores = DOMAIN rules.wastes
        /\ DOMAIN ws[1].confidence = DOMAIN rules.wastes
        /\ \A c \in DOMAIN rules.wastes :
              /\ 0 <= ws[1].scores[c] /\ ws[1].scores[c] <= 500
              /\ ws[1].confidence[c] \in {"Low", "Medium", "High"}

C3_Witness ==
    /\ ScoresDone /\ ~ws[1].raised /\ NonNegativeWeights
    /\ DOMAIN ws[1].scores = WasteNames
    /\ ws[1].confidence["defects"] = "Medium"
    /\ ws[1].confidence["waiting"] = "Low"
    /\ ws[1].scores["defects"] = 167
    /\ ws[1].scores["overproduction"] = 0

\* C4 as stated: when the rule store configures overproduction (here even
\* with questions of positive weight only), a Push step scores above 0 and
\* a Pull step scores 0 on overproduction, whatever its other fields.
C4_PushPullDecidesOverproduction ==
    (/\ ScoresDone /\ ~ws[1].raised
     /\ "overproduction" \in DOMAIN rules.wastes
     /\ Len(Questions("overproduction")) >= 1
     /\ \A k \in 1..Len(Questions("overproduction")) :
            Weight(Questions("overproduction")[k]) > 0) =>
        /\ step.push_pull = Some("Push") => ws[1].scores["overproduction"] > 0
        /\ step.push_pull = Some("Pull") => ws[1].scores["overproduction"] = 0

\* The case of C5: defects has a question, defect_pct = 5 and no defects
\* question is answered explicitly.
C5_Case ==
    /\ ScoresDone /\ ~ws[1].raised
    /\ "defects" \in DOMAIN rules.wastes
    /\ Len(Questions("defects")) >= 1
    /\ step.defect_pct = Some(5)
    /\ ~HasExplicitAnswer("defects")

\* C5 as stated: in that case the defects score is 5.0 and its confidence
\* High, for every rule store.
C5_DefectsAtThresholdScoresFive ==
    C5_Case => ws[1].scores["defects"] = 500 /\ ws[1].confidence["defects"] = "High"

\* C5 amended: in that case the confidence is High, and the score is 5.0
\* when the weights of the defects questions do not sum to 0 and 0.0 when
\* they do.
C5_DefectsAtThresholdScoresFiveUnlessZeroWeight ==
    C5_Case =>
        /\ ws[1].confidence["defects"] = "High"
        /\ ws[1].scores["defects"] =
              IF SumWeights(Questions("defects"), Len(Questions("defects"))) = 0
              THEN 0 ELSE 500

C5_Witness ==
    /\ C5_Case
    /\ Len(Questions("defects")) = 2
    /\ Questions("defects")[1].weight = None
    /\ Questions("defects")[2].weight = Some(2)
    /\ ws[1].scores["defects"] = 500
    /\ ws[1].confidence["defects"] = "High"
    /\ step.answers = EmptyDict

\* The defects score of the same call on a step that differs from step in
\* defect_pct only, not below it.
DefectsNeverDecreases ==
    \A d \in DefectValues :
        OrZero(d) >= OrZero(step.defect_pct) =>
            score_wastes([step EXCEPT !.defect_pct = d], rules).scores["defects"]
                >= ws[1].scores["defects"]

\* C6 as stated: for every rule store, raising defect_pct alone never
\* lowers the defects score.
C6_DefectsScoreMonotone ==
    (ScoresDone /\ ~ws[1].raised /\ "defects" \in DOMAIN rules.wastes) =>
        DefectsNeverDecreases

\* C6 amended: the same for every rule store with non-negative weights.
C6_DefectsScoreMonotoneNonNegativeWeights ==
    (/\ ScoresDone /\ ~ws[1].raised /\ "defects" \in DOMAIN rules.wastes
     /\ NonNegativeWeights) =>
        DefectsNeverDecreases

C6_Witness ==
    /\ ScoresDone /\ ~ws[1].raised /\ "defects" \in DOMAIN rules.wastes
    /\ NonNegativeWeights
    /\ step.defect_pct = Some(2)
    /\ ws[1].scores["defects"] = 333
    /\ score_wastes([step EXCEPT !.defect_pct = Some(3)], rules).scores["defects"] = 500

\* C8 as stated, for a category with at least one question: High exactly
\* when the metric meets its threshold and no question of the category is
\* answered explicitly, Medium when the metric meets its threshold and some
\* question is answered explicitly, Low when the metric does not meet its
\* threshold; so never Low when the metric meets its threshold.
C8_ConfidenceTiers ==
    (ScoresDone /\ ~ws[1].raised) =>
        \A c \in DOMAIN rules.wastes :
            Len(Questions(c)) >= 1 =>
                /\ ws[1].confidence[c] = "High"
                      <=> (MetricMeetsThreshold(c, step) /\ ~HasExplicitAnswer(c))
                /\ (MetricMeetsThreshold(c, step) /\ HasExplicitAnswer(c))
                      => ws[1].confidence[c] = "Medium"
                /\ ~MetricMeetsThreshold(c, step) => ws[1].confidence[c] = "Low"
                /\ MetricMeetsThreshold(c, step) => ws[1].confidence[c] # "Low"

\* The value C10 gives question k of category c: the explicit answer when
\* one is set, otherwise the metric inference.
QuestionValue(c, k) ==
    IF Questions(c)[k].id \in DOMAIN step.answers
    THEN step.answers[Questions(c)[k].id]
    ELSE MetricMeetsThreshold(c, step)

RECURSIVE WeightOver(_, _)
WeightOver(qlist, ks) ==
    IF ks = {} THEN 0
    ELSE LET k == CHOOSE k \in ks : TRUE
         IN  Weight(qlist[k]) + WeightOver(qlist, ks \ {k})

\* min(5, 5 * t / total) rounded to 2 decimals, in hundredths (total # 0).
WeightedScore(t, total) ==
    LET v == IF total > 0 THEN Mk(5 * t, total) ELSE Mk(-5 * t, -total)
    IN  Round2(IF RLt(RInt(5), v) THEN RInt(5) ELSE v)

\* C10: every category whose question weights do not sum to 0 scores
\* min(5, 5 * (weight of the questions whose value is true) / (total
\* weight)) rounded to 2 decimals, a question's value being its explicit
\* answer when set and the metric inference otherwise.
C10_WeightedEvidenceScore ==
    (ScoresDone /\ ~ws[1].raised) =>
        \A c \in DOMAIN rules.wastes :
            LET qlist == Questions(c)
                total == WeightOver(qlist, 1..Len(qlist))
                true_ks == {k \in 1..Len(qlist) : QuestionValue(c, k)}
            IN  total # 0 =>
                    ws[1].scores[c] = WeightedScore(WeightOver(qlist, true_ks), total)

C10_Witness ==
    /\ ScoresDone /\ ~ws[1].raised
    /\ DOMAIN rules.wastes = WasteNames
    /\ step.defect_pct = Some(5)
    /\ step.answers = [q \in {"q1"} |-> FALSE]
    /\ Len(Questions("defects")) = 2
    /\ Questions("defects")[1].weight = None
    /\ Questions("defects")[2].weight = Some(2)
    /\ ws[1].scores["defects"] = 333
    /\ ws[1].scores["overproduction"] = 0

====
